---------------------------- MODULE Spec2Model ----------------------------
(***************************************************************************)
(* Model of the event dispatch layer of packit-service:                    *)
(*   packit_service/worker/jobs.py  (SteveJobs.process_message,            *)
(*   SteveJobs.process_jobs, get_handlers_for_event,                       *)
(*   get_config_for_handler_kls, get_packit_commands_from_comment).        *)
(*                                                                         *)
(* One behaviour is one call of an entry point.  Optional values (Python   *)
(* None) are sequences of length 0 or 1: None is <<>>, Some(x) is <<x>>.   *)
(* Python lists are sequences, Python sets are sets, str values that the   *)
(* code cuts into pieces (comments) are sequences of one-character strings.*)
(***************************************************************************)
EXTENDS Naturals, Sequences, FiniteSets

None == <<>>
Some(x) == <<x>>
IsNone(o) == o = <<>>
Get(o) == o[1]

(* Largest number of jobs of a package configuration explored.             *)
MaxJobs == 2

(***************************************************************************)
(* Handler registry (packit_service/worker/handlers/abstract.py).          *)
(***************************************************************************)
HandlerKinds ==
    {"CoprBuildHandler", "KojiBuildHandler", "TestingFarmHandler",
     "CoprBuildEndHandler", "GithubAppInstallationHandler",
     "PagurePullRequestLabelHandler"}

JobTypes == {"copr_build", "build", "production_build", "tests"}

TriggerTypes == {"pull_request", "release"}

EventKinds ==
    {"PullRequestGithubEvent", "PullRequestCommentGithubEvent",
     "CoprBuildEndEvent", "ReleaseEvent", "InstallationEvent",
     "PullRequestLabelPagureEvent"}

(* Event classes that carry a comment (jobs.py, the isinstance tuple).     *)
CommentEventKinds == {"PullRequestCommentGithubEvent"}

MAP_JOB_TYPE_TO_HANDLER(job_type) ==
    CASE job_type = "copr_build" -> {"CoprBuildHandler", "CoprBuildEndHandler"}
      [] job_type = "build" -> {"CoprBuildHandler", "CoprBuildEndHandler"}
      [] job_type = "production_build" -> {"KojiBuildHandler"}
      [] job_type = "tests" -> {"TestingFarmHandler"}
      [] OTHER -> {}

MAP_REQUIRED_JOB_TYPE_TO_HANDLER(job_type) ==
    CASE job_type = "tests" -> {"CoprBuildHandler", "CoprBuildEndHandler"}
      [] OTHER -> {}

SUPPORTED_EVENTS_FOR_HANDLER(handler) ==
    CASE handler = "CoprBuildHandler" ->
             {"PullRequestGithubEvent", "PullRequestCommentGithubEvent"}
      [] handler = "KojiBuildHandler" ->
             {"PullRequestGithubEvent", "PullRequestCommentGithubEvent"}
      [] handler = "TestingFarmHandler" -> {"PullRequestCommentGithubEvent"}
      [] handler = "CoprBuildEndHandler" -> {"CoprBuildEndEvent"}
      [] handler = "GithubAppInstallationHandler" -> {"InstallationEvent"}
      [] handler = "PagurePullRequestLabelHandler" ->
             {"PullRequestLabelPagureEvent"}
      [] OTHER -> {}

cmd_build == <<"b", "u", "i", "l", "d">>
cmd_test == <<"t", "e", "s", "t">>

MAP_COMMENT_TO_HANDLER(command) ==
    CASE command = cmd_build -> {"CoprBuildHandler"}
      [] command = cmd_test -> {"TestingFarmHandler"}
      [] OTHER -> {}

(* getattr(handler, "topic", None) over JobHandler.get_all_subclasses().   *)
HandlerTopic(handler) ==
    CASE handler = "CoprBuildEndHandler" ->
             Some("org.fedoraproject.prod.copr.build.end")
      [] OTHER -> None

(***************************************************************************)
(* get_packit_commands_from_comment (jobs.py 128-152).                     *)
(***************************************************************************)
REQUESTED_PULL_REQUEST_COMMENT == <<"/", "p", "a", "c", "k", "i", "t">>

WhiteSpace == {" ", "\t", "\n"}

(* s[i:] in Python, i counted from 1 here.                                 *)
From(s, i) == SubSeq(s, i, Len(s))

(* str.lstrip(): drop the leading whitespace.                              *)
RECURSIVE LStrip(_)
LStrip(s) ==
    IF s # <<>> /\ Head(s) \in WhiteSpace THEN LStrip(Tail(s)) ELSE s

(* str.rstrip(): drop the trailing whitespace.                             *)
RECURSIVE RStrip(_)
RStrip(s) ==
    IF s # <<>> /\ s[Len(s)] \in WhiteSpace
    THEN RStrip(SubSeq(s, 1, Len(s) - 1))
    ELSE s

(* str.strip()                                                             *)
Strip(s) == RStrip(LStrip(s))

(* Length of the first whitespace-free run of s.                           *)
RECURSIVE TokenLen(_)
TokenLen(s) ==
    IF s = <<>> \/ Head(s) \in WhiteSpace THEN 0 ELSE 1 + TokenLen(Tail(s))

(* str.split(maxsplit=n) with no separator: runs of whitespace separate,   *)
(* after n splits the rest (leading whitespace dropped) is one last piece. *)
(* Variant: maxsplit is not honoured, the rest is split as well.           *)
RECURSIVE Split_NoMax(_, _)
Split_NoMax(s, maxsplit) ==
    LET t == LStrip(s)
    IN IF t = <<>> THEN <<>>
       ELSE <<SubSeq(t, 1, TokenLen(t))>>
                \o Split_NoMax(From(t, TokenLen(t) + 1), maxsplit)

RECURSIVE Split(_, _)
Split(s, maxsplit) ==
    LET t == LStrip(s)
    IN IF t = <<>> THEN <<>>
       ELSE IF maxsplit = 0 THEN <<t>>
       ELSE <<SubSeq(t, 1, TokenLen(t))>>
                \o Split(From(t, TokenLen(t) + 1), maxsplit - 1)

(* str.find(sub): the first index (from 1) where sub starts, 0 when none   *)
(* (Python's -1).                                                          *)
Find(s, sub) ==
    LET hits == {i \in 1..Len(s) :
                    /\ i + Len(sub) - 1 <= Len(s)
                    /\ SubSeq(s, i, i + Len(sub) - 1) = sub}
    IN IF hits = {} THEN 0
       ELSE CHOOSE i \in hits : \A j \in hits : i <= j

get_packit_commands_from_comment(comment) ==
    IF Strip(comment) = <<>> THEN <<>>
    ELSE LET cmd_start_index == Find(comment, REQUESTED_PULL_REQUEST_COMMENT)
         IN IF cmd_start_index = 0 THEN <<>>
            ELSE LET parts == Split(From(comment, cmd_start_index), 3)
                     packit_mark == Head(parts)
                     packit_command == Tail(parts)
                 IN IF packit_mark # REQUESTED_PULL_REQUEST_COMMENT THEN <<>>
                    ELSE packit_command

(* get_handlers_for_comment (jobs.py 155-163)                              *)
get_handlers_for_comment(comment) ==
    LET commands == get_packit_commands_from_comment(comment)
    IN IF commands = <<>> THEN {} ELSE MAP_COMMENT_TO_HANDLER(commands[1])

(***************************************************************************)
(* get_handlers_for_event (jobs.py 68-125).                                *)
(***************************************************************************)
(* Is x an element of the list s.                                          *)
InSeq(x, s) == \E i \in 1..Len(s) : s[i] = x

(* jobs.py 86-92: the jobs with the event's trigger, first occurrences.    *)
RECURSIVE JobsMatchingTriggerUnique(_, _, _)
JobsMatchingTriggerUnique(jobs, trigger, acc) ==
    IF jobs = <<>> THEN acc
    ELSE JobsMatchingTriggerUnique(
             Tail(jobs), trigger,
             IF Head(jobs).trigger = trigger /\ ~InSeq(Head(jobs), acc)
             THEN Append(acc, Head(jobs))
             ELSE acc)

(* Variant: the jobs are not filtered by the event's trigger.              *)
get_handlers_for_event_AnyTrigger(event, package_config) ==
    LET is_comment == event.kind \in CommentEventKinds
        handlers_triggered_by_comment ==
            IF is_comment THEN get_handlers_for_comment(event.comment) ELSE {}
    IN {handler \in HandlerKinds :
           \E i \in 1..Len(package_config.jobs) :
               /\ handler \in
                      MAP_JOB_TYPE_TO_HANDLER(package_config.jobs[i].type)
                      \cup MAP_REQUIRED_JOB_TYPE_TO_HANDLER(
                               package_config.jobs[i].type)
               /\ event.kind \in SUPPORTED_EVENTS_FOR_HANDLER(handler)
               /\ (~is_comment \/ handler \in handlers_triggered_by_comment)}

(* Variant: without the handlers a job type requires.                      *)
get_handlers_for_event_DirectOnly(event, package_config) ==
    LET jobs_matching_trigger ==
            JobsMatchingTriggerUnique(package_config.jobs, event.trigger, <<>>)
        is_comment == event.kind \in CommentEventKinds
        handlers_triggered_by_comment ==
            IF is_comment THEN get_handlers_for_comment(event.comment) ELSE {}
    IN {handler \in HandlerKinds :
           \E i \in 1..Len(jobs_matching_trigger) :
               /\ handler \in
                      MAP_JOB_TYPE_TO_HANDLER(jobs_matching_trigger[i].type)
               /\ event.kind \in SUPPORTED_EVENTS_FOR_HANDLER(handler)
               /\ (~is_comment \/ handler \in handlers_triggered_by_comment)}

(* Variant: a comment that gives no handler filters nothing.               *)
get_handlers_for_event_EmptyMeansAll(event, package_config) ==
    LET jobs_matching_trigger ==
            JobsMatchingTriggerUnique(package_config.jobs, event.trigger, <<>>)
        is_comment == event.kind \in CommentEventKinds
        handlers_triggered_by_comment ==
            IF is_comment THEN get_handlers_for_comment(event.comment) ELSE {}
    IN {handler \in HandlerKinds :
           \E i \in 1..Len(jobs_matching_trigger) :
               /\ handler \in
                      MAP_JOB_TYPE_TO_HANDLER(jobs_matching_trigger[i].type)
                      \cup MAP_REQUIRED_JOB_TYPE_TO_HANDLER(
                               jobs_matching_trigger[i].type)
               /\ event.kind \in SUPPORTED_EVENTS_FOR_HANDLER(handler)
               /\ (handlers_triggered_by_comment = {}
                      \/ handler \in handlers_triggered_by_comment)}

get_handlers_for_event(event, package_config) ==
    LET jobs_matching_trigger ==
            JobsMatchingTriggerUnique(package_config.jobs, event.trigger, <<>>)
        is_comment == event.kind \in CommentEventKinds
        handlers_triggered_by_comment ==
            IF is_comment THEN get_handlers_for_comment(event.comment) ELSE {}
    IN {handler \in HandlerKinds :
           \E i \in 1..Len(jobs_matching_trigger) :
               /\ handler \in
                      MAP_JOB_TYPE_TO_HANDLER(jobs_matching_trigger[i].type)
                      \cup MAP_REQUIRED_JOB_TYPE_TO_HANDLER(
                               jobs_matching_trigger[i].type)
               /\ event.kind \in SUPPORTED_EVENTS_FOR_HANDLER(handler)
               /\ (~is_comment \/ handler \in handlers_triggered_by_comment)}

(***************************************************************************)
(* get_config_for_handler_kls (jobs.py 166-210).                           *)
(***************************************************************************)
(* Each filtering loop appends the jobs that pass its test to a fresh      *)
(* list, in their order: SelectSeq.                                        *)
(* Variant: the jobs that require the handler are always added.            *)
get_config_for_handler_kls_Both(handler_kls, event, package_config) ==
    LET TriggerMatches(job) == job.trigger = event.trigger
        jobs_matching_trigger == SelectSeq(package_config.jobs, TriggerMatches)
        Direct(job) == handler_kls \in MAP_JOB_TYPE_TO_HANDLER(job.type)
        Required(job) ==
            handler_kls \in MAP_REQUIRED_JOB_TYPE_TO_HANDLER(job.type)
    IN SelectSeq(jobs_matching_trigger, Direct)
           \o SelectSeq(jobs_matching_trigger, Required)

(* Variant: the matching jobs are put at the front of the list.            *)
get_config_for_handler_kls_Reversed(handler_kls, event, package_config) ==
    LET TriggerMatches(job) == job.trigger = event.trigger
        jobs_matching_trigger == SelectSeq(package_config.jobs, TriggerMatches)
        Direct(job) == handler_kls \in MAP_JOB_TYPE_TO_HANDLER(job.type)
        Required(job) ==
            handler_kls \in MAP_REQUIRED_JOB_TYPE_TO_HANDLER(job.type)
        matching_jobs == SelectSeq(jobs_matching_trigger, Direct)
        found == IF matching_jobs = <<>>
                 THEN SelectSeq(jobs_matching_trigger, Required)
                 ELSE matching_jobs
    IN [k \in 1..Len(found) |-> found[Len(found) + 1 - k]]

(* Variant: without the pass over the jobs that require the handler.       *)
get_config_for_handler_kls_DirectOnly(handler_kls, event, package_config) ==
    LET TriggerMatches(job) == job.trigger = event.trigger
        jobs_matching_trigger == SelectSeq(package_config.jobs, TriggerMatches)
        Direct(job) == handler_kls \in MAP_JOB_TYPE_TO_HANDLER(job.type)
    IN SelectSeq(jobs_matching_trigger, Direct)

get_config_for_handler_kls(handler_kls, event, package_config) ==
    LET TriggerMatches(job) == job.trigger = event.trigger
        jobs_matching_trigger == SelectSeq(package_config.jobs, TriggerMatches)
        Direct(job) == handler_kls \in MAP_JOB_TYPE_TO_HANDLER(job.type)
        Required(job) ==
            handler_kls \in MAP_REQUIRED_JOB_TYPE_TO_HANDLER(job.type)
        matching_jobs == SelectSeq(jobs_matching_trigger, Direct)
    IN IF matching_jobs = <<>>
       THEN SelectSeq(jobs_matching_trigger, Required)
       ELSE matching_jobs

(***************************************************************************)
(* Inputs.                                                                 *)
(***************************************************************************)
(* JobConfig: job type and trigger (packit.config.JobConfig).              *)
JobConfigs == [type : JobTypes, trigger : TriggerTypes]

(* All lists of at most n elements of S.                                   *)
SeqsUpTo(S, n) == UNION {[1..k -> S] : k \in 0..n}

(* PackageConfig: the ordered list of its jobs; None when the repository   *)
(* holds no configuration.                                                 *)
PackageConfigs == {[jobs |-> js] : js \in SeqsUpTo(JobConfigs, MaxJobs)}

(* The project of an event: None when it cannot be obtained.               *)
Projects ==
    {[hostname |-> "github.com", namespace |-> "packit", private |-> FALSE],
     [hostname |-> "github.com", namespace |-> "packit", private |-> TRUE],
     [hostname |-> "github.com", namespace |-> "secret", private |-> TRUE]}

(* ServiceConfig.enabled_private_namespaces                                *)
enabled_private_namespaces == {"github.com/packit"}

comment_build ==
    REQUESTED_PULL_REQUEST_COMMENT \o <<" ">> \o cmd_build
comment_test ==
    REQUESTED_PULL_REQUEST_COMMENT \o <<" ">> \o cmd_test
comment_unknown ==
    REQUESTED_PULL_REQUEST_COMMENT \o <<" ", "x">>
comment_marker_only == REQUESTED_PULL_REQUEST_COMMENT
comment_no_marker == <<"o", "k">>

Comments ==
    {comment_build, comment_test, comment_unknown, comment_marker_only,
     comment_no_marker}

(* The events a parser can produce.  Only comment events carry a comment.  *)
Events ==
    {[kind |-> k, trigger |-> t, comment |-> c, project |-> p,
      package_config |-> pc, pre_check |-> b] :
         k \in EventKinds \ CommentEventKinds, t \in TriggerTypes,
         c \in {<<>>},
         p \in {None} \cup {Some(x) : x \in Projects},
         pc \in {None} \cup {Some(x) : x \in PackageConfigs},
         b \in BOOLEAN}
    \cup
    {[kind |-> k, trigger |-> t, comment |-> c, project |-> p,
      package_config |-> pc, pre_check |-> b] :
         k \in CommentEventKinds, t \in TriggerTypes, c \in Comments,
         p \in {None} \cup {Some(x) : x \in Projects},
         pc \in {None} \cup {Some(x) : x \in PackageConfigs},
         b \in BOOLEAN}

(* The topic argument of process_message: None, a handler's, a foreign one.*)
Topics ==
    {None, Some("org.fedoraproject.prod.copr.build.end"),
     Some("org.fedoraproject.prod.pagure.git.receive")}

Sources == {None, Some("centosmsg")}

(***************************************************************************)
(* State.                                                                  *)
(***************************************************************************)
VARIABLES
    entry,              \* the entry point called
    topic,              \* process_message: the topic argument
    source,             \* process_message: the source argument
    raw,                \* process_message: what the payload parses to
    pc,                 \* position in the call
    parsed,             \* whether a parser was run on the payload
    event_object,       \* process_message: event_object; process_jobs: event
    handler_classes,    \* process_jobs: handler classes not yet iterated
    handler_kls,        \* process_jobs: the loop variable
    job_configs,        \* process_jobs: job_configs
    processing_results, \* process_message: processing_results
    jobs_return,        \* what process_jobs returned
    result,             \* what the entry point returned
    calls               \* calls made to the allowlist and to celery, in order

dispatch_vars ==
    <<entry, topic, source, raw, pc, parsed, event_object, handler_classes,
      handler_kls, job_configs, processing_results, jobs_return, result,
      calls>>

(* StatusReporter (worker/reporting.py), the forge it talks to, its caller.*)
VARIABLES
    project_kind,        \* class of self.project
    commit_sha,          \* self.commit_sha
    pr_id,               \* self.pr_id
    project_with_commit, \* self._project_with_commit
    head_commit,         \* the forge: head commit of the pull request
    r_pc,                \* position in the reporter call
    r_args,              \* set_status: state, description, check_name, url
    r_pending,           \* report: check names still to loop over
    r_in_report,         \* whether set_status was called by report
    r_pr,                \* __set_pull_request_status: pr
    r_ncalls,            \* calls the caller made so far
    r_ncommits,          \* commits that landed on the pull request so far
    rlog                 \* calls, forge calls, returns and raises, in order

reporter_vars ==
    <<project_kind, commit_sha, pr_id, project_with_commit, head_commit, r_pc,
      r_args, r_pending, r_in_report, r_pr, r_ncalls, r_ncommits, rlog>>

(* One call of get_packit_commands_from_comment on its own.                *)
VARIABLES
    comment_in,          \* the comment given
    commands_out         \* the list returned, None before the call

parser_vars == <<comment_in, commands_out>>

vars == <<dispatch_vars, reporter_vars, parser_vars>>

NoArgs == [state |-> "", description |-> "", check_name |-> "", url |-> ""]

(* No reporter is in use.                                                  *)
ReporterOff ==
    /\ project_kind = "GithubProject"
    /\ commit_sha = ""
    /\ pr_id = None
    /\ project_with_commit = None
    /\ head_commit = ""
    /\ r_pc = "off"
    /\ r_args = NoArgs
    /\ r_pending = <<>>
    /\ r_in_report = FALSE
    /\ r_pr = None
    /\ r_ncalls = 0
    /\ r_ncommits = 0
    /\ rlog = <<>>

(* No comment is parsed on its own.                                        *)
ParserOff ==
    /\ comment_in = <<>>
    /\ commands_out = None

(* TaskResults.create_from(success, msg, job_config, event)                *)
TaskResults(success, msg, job_config, event) ==
    [success |-> success, msg |-> msg, job_config |-> job_config,
     event |-> event]

(* handler_kls.get_signature(event=event, job=job)                         *)
get_signature(handler, event, job) ==
    [handler |-> handler, event |-> event, job |-> job]

(* One call of Allowlist.check_and_report, as recorded in calls.           *)
GateCall(handler, cfgs, ok) ==
    [op |-> "check_and_report", handler |-> handler, job_configs |-> cfgs,
     signatures |-> <<>>, ok |-> ok]

(* One group(signatures).apply_async(), as recorded in calls.              *)
GroupCall(handler, cfgs, signatures) ==
    [op |-> "group.apply_async", handler |-> handler, job_configs |-> cfgs,
     signatures |-> signatures, ok |-> TRUE]

(* One signature.apply_async(), as recorded in calls.                      *)
SignatureCall(handler, signature) ==
    [op |-> "apply_async", handler |-> handler, job_configs |-> <<>>,
     signatures |-> <<signature>>, ok |-> TRUE]

Init ==
    /\ entry \in {"process_message", "process_jobs"}
    /\ IF entry = "process_message"
       THEN /\ topic \in Topics
            /\ source \in Sources
            /\ raw \in {None} \cup {Some(e) : e \in Events}
            /\ event_object = None
            /\ pc = "topic"
       ELSE /\ topic = None
            /\ source = None
            /\ raw \in {Some(e) : e \in Events}
            /\ event_object = raw
            /\ pc = "process_jobs"
    /\ parsed = FALSE
    /\ handler_classes = {}
    /\ handler_kls = None
    /\ job_configs = <<>>
    /\ processing_results = None
    /\ jobs_return = None
    /\ result = None
    /\ calls = <<>>
    /\ ReporterOff
    /\ ParserOff

(* return from the entry point process_message                             *)
ReturnMessage(value) ==
    /\ result' = Some(value)
    /\ pc' = "done"

(***************************************************************************)
(* process_message (jobs.py 305-398)                                       *)
(***************************************************************************)
(* jobs.py 316-326: the topic pre-filter.                                  *)
TopicFilter ==
    /\ pc = "topic"
    /\ LET topics == {HandlerTopic(handler) : handler \in HandlerKinds}
       IN IF ~IsNone(topic) /\ topic \notin topics
          THEN ReturnMessage(<<>>)
          ELSE pc' = "parse" /\ UNCHANGED result
    /\ UNCHANGED <<reporter_vars, parser_vars>>
    /\ UNCHANGED <<entry, topic, source, raw, parsed, event_object,
                   handler_classes, handler_kls, job_configs,
                   processing_results, jobs_return, calls>>

(* CentosEventParser().parse_event / Parser.parse_event: the payload's     *)
(* event, or None.                                                         *)
parse_event(src, payload) ==
    IF src = Some("centosmsg") THEN payload ELSE payload

(* Variant: the event's pre_check is not consulted.                        *)
ParseEvent_NoPreCheck ==
    /\ pc = "parse"
    /\ parsed' = TRUE
    /\ event_object' = parse_event(source, raw)
    /\ IF IsNone(event_object')
       THEN ReturnMessage(<<>>)
       ELSE pc' = "private" /\ UNCHANGED result
    /\ UNCHANGED <<reporter_vars, parser_vars>>
    /\ UNCHANGED <<entry, topic, source, raw, handler_classes, handler_kls,
                   job_configs, processing_results, jobs_return, calls>>

(* jobs.py 328-335: parse the payload, run the event's pre_check.          *)
ParseEvent ==
    /\ pc = "parse"
    /\ parsed' = TRUE
    /\ event_object' = parse_event(source, raw)
    /\ IF ~(~IsNone(event_object') /\ Get(event_object').pre_check)
       THEN ReturnMessage(<<>>)
       ELSE pc' = "private" /\ UNCHANGED result
    /\ UNCHANGED <<reporter_vars, parser_vars>>
    /\ UNCHANGED <<entry, topic, source, raw, handler_classes, handler_kls,
                   job_configs, processing_results, jobs_return, calls>>

(* Variant: a private project of a namespace that is not enabled is only   *)
(* logged.                                                                 *)
PrivateCheck_NoReturn ==
    /\ pc = "private"
    /\ pc' = "route"
    /\ UNCHANGED <<reporter_vars, parser_vars>>
    /\ UNCHANGED <<entry, topic, source, raw, parsed, event_object,
                   handler_classes, handler_kls, job_configs,
                   processing_results, jobs_return, result, calls>>

(* jobs.py 337-361: the private repository check.                          *)
PrivateCheck ==
    /\ pc = "private"
    /\ LET project == Get(event_object).project
       IN IF IsNone(project) THEN pc' = "route" /\ UNCHANGED result
          ELSE IF Get(project).private
          THEN LET service_with_namespace ==
                       Get(project).hostname \o "/" \o Get(project).namespace
               IN IF service_with_namespace \notin enabled_private_namespaces
                  THEN ReturnMessage(<<>>)
                  ELSE pc' = "route" /\ UNCHANGED result
          ELSE pc' = "route" /\ UNCHANGED result
    /\ UNCHANGED <<reporter_vars, parser_vars>>
    /\ UNCHANGED <<entry, topic, source, raw, parsed, event_object,
                   handler_classes, handler_kls, job_configs,
                   processing_results, jobs_return, calls>>

(* Variant: without the branch of the label event.                         *)
Route_LabelViaJobs ==
    /\ pc = "route"
    /\ LET event == Get(event_object)
       IN IF event.kind = "InstallationEvent"
          THEN /\ calls' = Append(calls,
                       SignatureCall("GithubAppInstallationHandler",
                           get_signature("GithubAppInstallationHandler",
                                         event, None)))
               /\ pc' = "finish"
          ELSE /\ pc' = "process_jobs"
               /\ UNCHANGED calls
    /\ UNCHANGED <<reporter_vars, parser_vars>>
    /\ UNCHANGED <<entry, topic, source, raw, parsed, event_object,
                   handler_classes, handler_kls, job_configs,
                   processing_results, jobs_return, result>>

(* jobs.py 370-386: installation and label events are scheduled directly,  *)
(* every other event goes to process_jobs.                                 *)
Route ==
    /\ pc = "route"
    /\ LET event == Get(event_object)
       IN IF event.kind = "InstallationEvent"
          THEN /\ calls' = Append(calls,
                       SignatureCall("GithubAppInstallationHandler",
                           get_signature("GithubAppInstallationHandler",
                                         event, None)))
               /\ pc' = "finish"
          ELSE IF event.kind = "PullRequestLabelPagureEvent"
          THEN /\ calls' = Append(calls,
                       SignatureCall("PagurePullRequestLabelHandler",
                           get_signature("PagurePullRequestLabelHandler",
                                         event, None)))
               /\ pc' = "finish"
          ELSE /\ pc' = "process_jobs"
               /\ UNCHANGED calls
    /\ UNCHANGED <<reporter_vars, parser_vars>>
    /\ UNCHANGED <<entry, topic, source, raw, parsed, event_object,
                   handler_classes, handler_kls, job_configs,
                   processing_results, jobs_return, result>>

(* Variant: "if not processing_results" in place of "is None".             *)
Finish_IfNot ==
    /\ pc = "finish"
    /\ processing_results' =
           IF IsNone(processing_results) \/ Get(processing_results) = <<>>
           THEN Some(<<TaskResults(TRUE, "Job created.", None,
                                   Get(event_object))>>)
           ELSE processing_results
    /\ ReturnMessage(Get(processing_results'))
    /\ UNCHANGED <<reporter_vars, parser_vars>>
    /\ UNCHANGED <<entry, topic, source, raw, parsed, event_object,
                   handler_classes, handler_kls, job_configs, jobs_return,
                   calls>>

(* jobs.py 388-398: the default acknowledgment, and the return.            *)
Finish ==
    /\ pc = "finish"
    /\ processing_results' =
           IF IsNone(processing_results)
           THEN Some(<<TaskResults(TRUE, "Job created.", None,
                                   Get(event_object))>>)
           ELSE processing_results
    /\ ReturnMessage(Get(processing_results'))
    /\ UNCHANGED <<reporter_vars, parser_vars>>
    /\ UNCHANGED <<entry, topic, source, raw, parsed, event_object,
                   handler_classes, handler_kls, job_configs, jobs_return,
                   calls>>

(***************************************************************************)
(* process_jobs (jobs.py 228-303)                                          *)
(***************************************************************************)
(* return from process_jobs: to its caller process_message (jobs.py 386),  *)
(* or out of the entry point.                                              *)
ReturnJobs(value) ==
    /\ jobs_return' = Some(value)
    /\ IF entry = "process_message"
       THEN /\ processing_results' = Some(value)
            /\ pc' = "finish"
            /\ UNCHANGED result
       ELSE /\ result' = Some(value)
            /\ pc' = "done"
            /\ UNCHANGED processing_results

(* Variant: an event without configuration gets the empty list.           *)
ProcessJobsEntry_NoConfigEmpty ==
    /\ pc = "process_jobs"
    /\ LET event == Get(event_object)
       IN IF IsNone(event.package_config)
          THEN /\ ReturnJobs(<<>>)
               /\ UNCHANGED <<handler_classes, job_configs>>
          ELSE LET matched ==
                       get_handlers_for_event(event, Get(event.package_config))
               IN IF matched = {}
                  THEN /\ ReturnJobs(<<>>)
                       /\ UNCHANGED <<handler_classes, job_configs>>
                  ELSE /\ handler_classes' = matched
                       /\ job_configs' = <<>>
                       /\ pc' = "loop"
                       /\ UNCHANGED <<processing_results, jobs_return, result>>
    /\ UNCHANGED <<reporter_vars, parser_vars>>
    /\ UNCHANGED <<entry, topic, source, raw, parsed, event_object,
                   handler_kls, calls>>

(* Variant: an empty set of handlers is answered like a missing            *)
(* configuration.                                                          *)
ProcessJobsEntry_DefaultOnNoHandler ==
    /\ pc = "process_jobs"
    /\ LET event == Get(event_object)
       IN IF IsNone(event.package_config)
             \/ get_handlers_for_event(event, Get(event.package_config)) = {}
          THEN /\ ReturnJobs(<<TaskResults(TRUE,
                      "No packit config found in the repository.",
                      None, event)>>)
               /\ UNCHANGED <<handler_classes, job_configs>>
          ELSE /\ handler_classes' =
                      get_handlers_for_event(event, Get(event.package_config))
               /\ job_configs' = <<>>
               /\ pc' = "loop"
               /\ UNCHANGED <<processing_results, jobs_return, result>>
    /\ UNCHANGED <<reporter_vars, parser_vars>>
    /\ UNCHANGED <<entry, topic, source, raw, parsed, event_object,
                   handler_kls, calls>>

(* jobs.py 233-254: no configuration, no handler, or enter the loop.       *)
ProcessJobsEntry ==
    /\ pc = "process_jobs"
    /\ LET event == Get(event_object)
       IN IF IsNone(event.package_config)
          THEN /\ ReturnJobs(<<TaskResults(TRUE,
                      "No packit config found in the repository.",
                      None, event)>>)
               /\ UNCHANGED <<handler_classes, job_configs>>
          ELSE LET matched ==
                       get_handlers_for_event(event, Get(event.package_config))
               IN IF matched = {}
                  THEN /\ ReturnJobs(<<>>)
                       /\ UNCHANGED <<handler_classes, job_configs>>
                  ELSE /\ handler_classes' = matched
                       /\ job_configs' = <<>>
                       /\ pc' = "loop"
                       /\ UNCHANGED <<processing_results, jobs_return, result>>
    /\ UNCHANGED <<reporter_vars, parser_vars>>
    /\ UNCHANGED <<entry, topic, source, raw, parsed, event_object,
                   handler_kls, calls>>

(* jobs.py 256-263: the next handler class of the set, in an order the     *)
(* set does not fix, and its job configs.                                  *)
NextHandler ==
    /\ pc = "loop"
    /\ handler_classes # {}
    /\ \E h \in handler_classes :
          /\ handler_kls' = Some(h)
          /\ handler_classes' = handler_classes \ {h}
          /\ job_configs' =
                 get_config_for_handler_kls(
                     h, Get(event_object),
                     Get(Get(event_object).package_config))
    /\ pc' = "gate"
    /\ UNCHANGED <<reporter_vars, parser_vars>>
    /\ UNCHANGED <<entry, topic, source, raw, parsed, event_object,
                   processing_results, jobs_return, result, calls>>

FailedResults_AsSuccess(cfgs, event) ==
    [i \in 1..Len(cfgs) |->
        TaskResults(TRUE, "Job created.", Some(cfgs[i]), event)]

(* jobs.py 267-283: the allowlist check; a rejection returns the failures. *)
FailedResults(cfgs, event) ==
    [i \in 1..Len(cfgs) |->
        TaskResults(FALSE, "Account is not allowlisted!", Some(cfgs[i]), event)]

(* Variant: a rejection is recorded but the handler class is still run.    *)
CheckAndReport_NoReturn ==
    /\ pc = "gate"
    /\ \E ok \in BOOLEAN :
          calls' = Append(calls, GateCall(Get(handler_kls), job_configs, ok))
    /\ pc' = "submit"
    /\ UNCHANGED <<reporter_vars, parser_vars>>
    /\ UNCHANGED <<entry, topic, source, raw, parsed, event_object,
                   handler_classes, handler_kls, job_configs,
                   processing_results, jobs_return, result>>

CheckAndReport ==
    /\ pc = "gate"
    /\ \E ok \in BOOLEAN :
          /\ calls' = Append(calls, GateCall(Get(handler_kls), job_configs, ok))
          /\ IF ~ok
             THEN ReturnJobs(FailedResults(job_configs, Get(event_object)))
             ELSE /\ pc' = "submit"
                  /\ UNCHANGED <<processing_results, jobs_return, result>>
    /\ UNCHANGED <<reporter_vars, parser_vars>>
    /\ UNCHANGED <<entry, topic, source, raw, parsed, event_object,
                   handler_classes, handler_kls, job_configs>>

(* jobs.py 285-291: one signature per job config, submitted as one group.  *)
(* Variant: a signature for the first job config only.                    *)
Signatures_FirstOnly(handler, event, cfgs) ==
    [i \in 1..(IF cfgs = <<>> THEN 0 ELSE 1) |->
        get_signature(handler, event, Some(cfgs[i]))]

Signatures(handler, event, cfgs) ==
    [i \in 1..Len(cfgs) |-> get_signature(handler, event, Some(cfgs[i]))]

(* Variant: only the group of the class iterated last is submitted.        *)
SubmitGroup_LastOnly ==
    /\ pc = "submit"
    /\ calls' = IF handler_classes # {} THEN calls
                ELSE Append(calls,
                         GroupCall(Get(handler_kls), job_configs,
                                   Signatures(Get(handler_kls),
                                              Get(event_object), job_configs)))
    /\ pc' = "loop"
    /\ UNCHANGED <<reporter_vars, parser_vars>>
    /\ UNCHANGED <<entry, topic, source, raw, parsed, event_object,
                   handler_classes, handler_kls, job_configs,
                   processing_results, jobs_return, result>>

SubmitGroup ==
    /\ pc = "submit"
    /\ calls' = Append(calls,
           GroupCall(Get(handler_kls), job_configs,
                     Signatures(Get(handler_kls), Get(event_object),
                                job_configs)))
    /\ pc' = "loop"
    /\ UNCHANGED <<reporter_vars, parser_vars>>
    /\ UNCHANGED <<entry, topic, source, raw, parsed, event_object,
                   handler_classes, handler_kls, job_configs,
                   processing_results, jobs_return, result>>

(* jobs.py 293-303: after the loop, the results of job_configs.            *)
SuccessResults(cfgs, event) ==
    [i \in 1..Len(cfgs) |->
        TaskResults(TRUE, "Job created.", Some(cfgs[i]), event)]

(* Variant: the results of the job configs of every group submitted.       *)
LoopEnd_AllHandlers ==
    /\ pc = "loop"
    /\ handler_classes = {}
    /\ LET RECURSIVE AllConfigs(_)
           AllConfigs(i) ==
               IF i > Len(calls) THEN <<>>
               ELSE (IF calls[i].op = "group.apply_async"
                     THEN calls[i].job_configs ELSE <<>>) \o AllConfigs(i + 1)
       IN ReturnJobs(SuccessResults(AllConfigs(1), Get(event_object)))
    /\ UNCHANGED <<reporter_vars, parser_vars>>
    /\ UNCHANGED <<entry, topic, source, raw, parsed, event_object,
                   handler_classes, handler_kls, job_configs, calls>>

LoopEnd ==
    /\ pc = "loop"
    /\ handler_classes = {}
    /\ ReturnJobs(SuccessResults(job_configs, Get(event_object)))
    /\ UNCHANGED <<reporter_vars, parser_vars>>
    /\ UNCHANGED <<entry, topic, source, raw, parsed, event_object,
                   handler_classes, handler_kls, job_configs, calls>>

Next ==
    \/ TopicFilter
    \/ ParseEvent
    \/ PrivateCheck
    \/ Route
    \/ Finish
    \/ ProcessJobsEntry
    \/ NextHandler
    \/ CheckAndReport
    \/ SubmitGroup
    \/ LoopEnd

Spec == Init /\ [][Next]_vars

(***************************************************************************)
(* get_packit_commands_from_comment called on its own, on the comments     *)
(* made of at most MaxPieces pieces and on the comments the documentation  *)
(* gives as examples.                                                      *)
(***************************************************************************)
MaxPieces == 6

Pieces ==
    {REQUESTED_PULL_REQUEST_COMMENT, <<" ">>, <<"a">>, <<" ", "b">>}

RECURSIVE Concat(_)
Concat(ss) == IF ss = <<>> THEN <<>> ELSE Head(ss) \o Concat(Tail(ss))

example_build == comment_build
example_random_text ==
    <<"r", "a", "n", "d", "o", "m", " ", "t", "e", "x", "t">>
example_packitbuild == REQUESTED_PULL_REQUEST_COMMENT \o cmd_build
example_a_b_c_d ==
    REQUESTED_PULL_REQUEST_COMMENT \o <<" ", "a", " ", "b", " ", "c", " ", "d">>

example_packitbuild_x == example_packitbuild \o <<" ", "x">>
example_x_packit_build == <<"x">> \o example_build

ParserComments ==
    {Concat(ss) : ss \in SeqsUpTo(Pieces, MaxPieces)}
        \cup {example_build, example_random_text, example_packitbuild,
              example_a_b_c_d, example_packitbuild_x, example_x_packit_build}

(* No event is dispatched.                                                 *)
DispatchOff ==
    /\ entry = "none"
    /\ topic = None
    /\ source = None
    /\ raw = None
    /\ pc = "off"
    /\ parsed = FALSE
    /\ event_object = None
    /\ handler_classes = {}
    /\ handler_kls = None
    /\ job_configs = <<>>
    /\ processing_results = None
    /\ jobs_return = None
    /\ result = None
    /\ calls = <<>>

InitParser ==
    /\ comment_in \in ParserComments
    /\ commands_out = None
    /\ DispatchOff
    /\ ReporterOff

ParseComment ==
    /\ IsNone(commands_out)
    /\ commands_out' = Some(get_packit_commands_from_comment(comment_in))
    /\ UNCHANGED <<comment_in, dispatch_vars, reporter_vars>>

NextParser == ParseComment

SpecParser == InitParser /\ [][NextParser]_vars

(***************************************************************************)
(* StatusReporter (worker/reporting.py 37-201): one reporter, the calls    *)
(* its caller makes one after the other, and the commits that land on the  *)
(* pull request meanwhile.                                                 *)
(***************************************************************************)
(* Calls of report / set_status by the caller, commits landing, and check  *)
(* names in one list, explored.                                            *)
MaxReporterCalls == 2
MaxCommits == 1
MaxNames == 2

ProjectKinds == {"GithubProject", "GitlabProject", "PagureProject"}
Commits == {"c1", "c2"}
Descriptions == {"Build done."}
(* state and url of a call: a success without a url, a failure with one.   *)
StatusArgs == {[state |-> "success", url |-> ""],
               [state |-> "failure", url |-> "https://logs"]}
CheckNameOrder == <<"build", "test", "rpm", "srpm">>
CheckNameSet == {"build", "test"}
CheckNameLists ==
    {SubSeq(CheckNameOrder, 1, n) :
        n \in 0..(IF MaxNames < Len(CheckNameOrder)
                  THEN MaxNames ELSE Len(CheckNameOrder))}

(* check_names: Union[str, list, None]                                     *)
CheckNamesArgs ==
    {[tag |-> "None", str |-> "", list |-> <<>>]}
        \cup {[tag |-> "str", str |-> n, list |-> <<>>] :
                 n \in CheckNameSet \cup {""}}
        \cup {[tag |-> "list", str |-> "", list |-> l] :
                 l \in CheckNameLists}

(* What set_commit_status can end with: nothing raised, the create error   *)
(* of python-gitlab with its response code, the exception of PyGithub.     *)
Outcomes(kind) ==
    CASE kind = "GitlabProject" ->
             {[exc |-> "", code |-> 0]}
                 \cup {[exc |-> "GitlabCreateError", code |-> c] :
                          c \in {400, 403, 404, 500}}
      [] kind = "GithubProject" ->
             {[exc |-> "", code |-> 0]}
                 \cup {[exc |-> "GithubException", code |-> c] :
                          c \in {403, 500}}
      [] OTHER -> {[exc |-> "", code |-> 0]}

(* hasattr(pr, "set_flag"): the pull requests of Pagure have flags.        *)
HasSetFlag(kind) == kind = "PagureProject"

(* One line of rlog, the log of the caller's latest call: the call, a      *)
(* set_status of report(), a forge call, a return, a raise.  The line of a *)
(* report() holds check_names as given: its kind in detail, the single     *)
(* name in check_name, the list in names.                                  *)
Entry(op, target, a, detail, code) ==
    [op |-> op, target |-> target, check_name |-> a.check_name,
     state |-> a.state, url |-> a.url, description |-> a.description,
     detail |-> detail, code |-> code, names |-> <<>>, head |-> head_commit]

PAGURE_PLACEHOLDER_URL ==
    "https://wiki.centos.org/Manuals/ReleaseNotes/CentOSStream"

(* reporting.py 138-147: the body of the fallback commit comment.          *)
CommentBody(a) ==
    "- name: " \o a.check_name \o "\n- state: " \o a.state \o "\n- url: "
        \o (IF a.url # "" THEN a.url ELSE "not provided")
        \o "\n\n" \o a.description

(* hashlib.md5(check_name.encode()).hexdigest()                            *)
Md5Hex(check_name) == "md5:" \o check_name

InitReporter ==
    /\ project_kind \in ProjectKinds
    /\ commit_sha = "c1"
    /\ pr_id \in {None, Some(1)}
    /\ project_with_commit = None
    /\ head_commit \in IF IsNone(pr_id) THEN {""} ELSE Commits
    /\ r_pc = "idle"
    /\ r_args = NoArgs
    /\ r_pending = <<>>
    /\ r_in_report = FALSE
    /\ r_pr = None
    /\ r_ncalls = 0
    /\ r_ncommits = 0
    /\ rlog = <<>>
    /\ DispatchOff
    /\ ParserOff

(* not check_names                                                         *)
Falsy(check_names) ==
    \/ check_names.tag = "None"
    \/ check_names.tag = "str" /\ check_names.str = ""
    \/ check_names.tag = "list" /\ check_names.list = <<>>

NormalizeNames_ListOnly(check_names) ==
    check_names.list

(* reporting.py 86-87: a single name becomes a list of one.                *)
NormalizeNames(check_names) ==
    IF check_names.tag = "str" THEN <<check_names.str>> ELSE check_names.list

(* reporting.py 66-87: report() is called; without check names it returns. *)
CallReport ==
    /\ r_pc = "idle"
    /\ r_ncalls < MaxReporterCalls
    /\ r_ncalls' = r_ncalls + 1
    /\ \E sa \in StatusArgs, description \in Descriptions,
          check_names \in CheckNamesArgs :
          LET a == [state |-> sa.state, description |-> description,
                    check_name |-> "", url |-> sa.url]
              called == [Entry("report", "", a, check_names.tag, 0)
                             EXCEPT !.names = check_names.list,
                                    !.check_name = check_names.str]
          IN IF Falsy(check_names)
             THEN /\ rlog' = <<called, Entry("report_return", "", a, "", 0)>>
                  /\ UNCHANGED <<r_pc, r_args, r_pending, r_in_report>>
             ELSE /\ rlog' = <<called>>
                  /\ r_args' = a
                  /\ r_pending' = NormalizeNames(check_names)
                  /\ r_in_report' = TRUE
                  /\ r_pc' = "report_loop"
    /\ UNCHANGED <<project_kind, commit_sha, pr_id, project_with_commit,
                   head_commit, r_pr, r_ncommits>>
    /\ UNCHANGED <<dispatch_vars, parser_vars>>

(* reporting.py 89-92: the loop of report(): set_status for the next check *)
(* name, or the return.                                                    *)
ReportNext ==
    /\ r_pc = "report_loop"
    /\ IF r_pending = <<>>
       THEN /\ rlog' = Append(rlog, Entry("report_return", "",
                                          [r_args EXCEPT !.check_name = ""],
                                          "", 0))
            /\ r_pc' = "idle"
            /\ r_in_report' = FALSE
            /\ r_args' = NoArgs
            /\ UNCHANGED r_pending
       ELSE /\ r_args' = [r_args EXCEPT !.check_name = Head(r_pending)]
            /\ rlog' = Append(rlog, Entry("set_status", "", r_args', "", 0))
            /\ r_pending' = Tail(r_pending)
            /\ r_pc' = "status"
            /\ UNCHANGED r_in_report
    /\ UNCHANGED <<project_kind, commit_sha, pr_id, project_with_commit,
                   head_commit, r_pr, r_ncalls, r_ncommits>>
    /\ UNCHANGED <<dispatch_vars, parser_vars>>

(* reporting.py 153-159: set_status() is called by the caller.             *)
CallSetStatus ==
    /\ r_pc = "idle"
    /\ r_ncalls < MaxReporterCalls
    /\ r_ncalls' = r_ncalls + 1
    /\ \E sa \in StatusArgs, description \in Descriptions,
          check_name \in CheckNameSet :
          /\ r_args' = [state |-> sa.state, description |-> description,
                        check_name |-> check_name, url |-> sa.url]
          /\ rlog' = <<Entry("set_status", "", r_args', "", 0)>>
    /\ r_in_report' = FALSE
    /\ r_pending' = <<>>
    /\ r_pc' = "status"
    /\ UNCHANGED <<project_kind, commit_sha, pr_id, project_with_commit,
                   head_commit, r_pr, r_ncommits>>
    /\ UNCHANGED <<dispatch_vars, parser_vars>>

AfterStatusAttempt_RaiseFirst(o, a) ==
    LET comment == Entry("commit_comment", "project", a, CommentBody(a), 0)
    IN CASE o.exc = "GitlabCreateError" ->
                [log |-> IF o.code \in {403, 404} THEN <<comment>> ELSE <<>>,
                 raised |-> o.code \notin {400, 403, 404}]
         [] o.exc = "GithubException" ->
                [log |-> <<comment>>, raised |-> FALSE]
         [] OTHER -> [log |-> <<>>, raised |-> FALSE]

AfterStatusAttempt_GithubByCode(o, a) ==
    LET comment == Entry("commit_comment", "project", a, CommentBody(a), 0)
    IN CASE o.exc \in {"GitlabCreateError", "GithubException"} ->
                [log |-> IF o.code # 400 THEN <<comment>> ELSE <<>>,
                 raised |-> o.code \notin {400, 403, 404}]
         [] OTHER -> [log |-> <<>>, raised |-> FALSE]

AfterStatusAttempt_CommentOn400(o, a) ==
    LET comment == Entry("commit_comment", "project", a, CommentBody(a), 0)
    IN CASE o.exc = "GitlabCreateError" ->
                [log |-> <<comment>>,
                 raised |-> o.code \notin {400, 403, 404}]
         [] o.exc = "GithubException" ->
                [log |-> <<comment>>, raised |-> FALSE]
         [] OTHER -> [log |-> <<>>, raised |-> FALSE]

(* reporting.py 172-188: what follows the attempt to set the commit status *)
(* that ended with outcome o: the fallback comment or not, the raise or    *)
(* not.                                                                    *)
AfterStatusAttempt(o, a) ==
    LET comment == Entry("commit_comment", "project", a, CommentBody(a), 0)
    IN CASE o.exc = "GitlabCreateError" ->
                [log |-> IF o.code # 400 THEN <<comment>> ELSE <<>>,
                 raised |-> o.code \notin {400, 403, 404}]
         [] o.exc = "GithubException" ->
                [log |-> <<comment>>, raised |-> FALSE]
         [] OTHER -> [log |-> <<>>, raised |-> FALSE]

(* reporting.py 153-159, 186: the caller of a set_status() that raised      *)
(* calls it again with the same arguments; rlog keeps the lines of the     *)
(* call that raised.                                                       *)
RetrySetStatus ==
    /\ r_pc = "idle"
    /\ r_ncalls < MaxReporterCalls
    /\ rlog # <<>>
    /\ rlog[1].op = "set_status"
    /\ rlog[Len(rlog)].op = "raise"
    /\ r_ncalls' = r_ncalls + 1
    /\ r_args' = [state |-> rlog[1].state, description |-> rlog[1].description,
                  check_name |-> rlog[1].check_name, url |-> rlog[1].url]
    /\ rlog' = Append(rlog, Entry("set_status", "", r_args', "retry", 0))
    /\ r_in_report' = FALSE
    /\ r_pending' = <<>>
    /\ r_pc' = "status"
    /\ UNCHANGED <<project_kind, commit_sha, pr_id, project_with_commit,
                   head_commit, r_pr, r_ncommits>>
    /\ UNCHANGED <<dispatch_vars, parser_vars>>

(* reporting.py 160-162: the arguments of the running set_status, its url *)
(* replaced where the Pagure API would not accept an empty one; r_args     *)
(* keeps the arguments as the caller gave them.                            *)
FixedArgs ==
    [r_args EXCEPT !.url = IF r_args.url = "" /\ project_kind = "PagureProject"
                           THEN PAGURE_PLACEHOLDER_URL ELSE r_args.url]

(* reporting.py 168-188 (and 52-64): the project to set the status on, the *)
(* attempt and the handling of its exceptions.                             *)
SetCommitStatus ==
    /\ r_pc = "status"
    /\ LET a == FixedArgs
           via_pr == project_kind = "GitlabProject" /\ ~IsNone(pr_id)
           target == IF ~IsNone(project_with_commit)
                     THEN Get(project_with_commit)
                     ELSE IF via_pr THEN "source_project" ELSE "project"
           resolve == IF IsNone(project_with_commit) /\ via_pr
                      THEN <<Entry("get_pr", "project", a,
                                   "source_project", 0)>>
                      ELSE <<>>
       IN /\ project_with_commit' = Some(target)
          /\ \E o \in Outcomes(project_kind) :
                LET attempt ==
                        Entry("set_commit_status", target, a, o.exc, o.code)
                    after == AfterStatusAttempt(o, a)
                IN IF after.raised
                   THEN /\ rlog' = rlog \o resolve \o <<attempt>> \o after.log
                                       \o <<Entry("raise", "", a, o.exc, o.code)>>
                        /\ r_pc' = "idle"
                        /\ r_in_report' = FALSE
                        /\ r_pending' = <<>>
                   ELSE /\ rlog' = rlog \o resolve \o <<attempt>> \o after.log
                        /\ r_pc' = "mirror"
                        /\ UNCHANGED <<r_in_report, r_pending>>
    /\ UNCHANGED <<project_kind, commit_sha, pr_id, head_commit, r_args, r_pr,
                   r_ncalls, r_ncommits>>
    /\ UNCHANGED <<dispatch_vars, parser_vars>>

(* set_status returns: to the loop of report(), or to the caller.          *)
ReturnStatus(entries) ==
    /\ rlog' = rlog \o entries \o <<Entry("return", "", FixedArgs, "", 0)>>
    /\ r_pc' = IF r_in_report THEN "report_loop" ELSE "idle"

SetPullRequestStatus_NoFlag ==
    /\ r_pc = "mirror"
    /\ IF IsNone(pr_id)
       THEN /\ ReturnStatus(<<>>)
            /\ UNCHANGED r_pr
       ELSE /\ r_pr' = Some([head_commit |-> head_commit,
                             set_flag |-> HasSetFlag(project_kind)])
            /\ ReturnStatus(<<Entry("get_pr", "project", FixedArgs,
                                    "pr", 0)>>)
    /\ UNCHANGED <<project_kind, commit_sha, pr_id, project_with_commit,
                   head_commit, r_args, r_pending, r_in_report, r_ncalls,
                   r_ncommits>>
    /\ UNCHANGED <<dispatch_vars, parser_vars>>

(* reporting.py 94-100: __set_pull_request_status reads the pull request   *)
(* and decides whether to flag it.                                         *)
SetPullRequestStatus ==
    /\ r_pc = "mirror"
    /\ IF IsNone(pr_id)
       THEN /\ ReturnStatus(<<>>)
            /\ UNCHANGED r_pr
       ELSE /\ r_pr' = Some([head_commit |-> head_commit,
                             set_flag |-> HasSetFlag(project_kind)])
            /\ IF Get(r_pr').set_flag /\ Get(r_pr').head_commit = commit_sha
               THEN /\ rlog' = Append(rlog,
                           Entry("get_pr", "project", FixedArgs, "pr", 0))
                    /\ r_pc' = "flag"
               ELSE ReturnStatus(<<Entry("get_pr", "project", FixedArgs,
                                         "pr", 0)>>)
    /\ UNCHANGED <<project_kind, commit_sha, pr_id, project_with_commit,
                   head_commit, r_args, r_pending, r_in_report, r_ncalls,
                   r_ncommits>>
    /\ UNCHANGED <<dispatch_vars, parser_vars>>

(* reporting.py 101-111: pr.set_flag                                       *)
SetFlag ==
    /\ r_pc = "flag"
    /\ ReturnStatus(<<Entry("set_flag", "pr", FixedArgs,
                            Md5Hex(r_args.check_name), 0)>>)
    /\ UNCHANGED <<project_kind, commit_sha, pr_id, project_with_commit,
                   head_commit, r_args, r_pending, r_in_report, r_pr,
                   r_ncalls, r_ncommits>>
    /\ UNCHANGED <<dispatch_vars, parser_vars>>

(* state.name.upper() of the CommitStatus members used.                    *)
Upper(name) ==
    CASE name = "success" -> "SUCCESS"
      [] name = "failure" -> "FAILURE"
      [] OTHER -> name

(* "\n".join(lines)                                                        *)
RECURSIVE JoinLines(_)
JoinLines(lines) ==
    IF lines = <<>> THEN ""
    ELSE IF Len(lines) = 1 THEN lines[1]
    ELSE lines[1] \o "\n" \o JoinLines(Tail(lines))

comment_table_rows_HeaderOnly(check_names, url, state) ==
    <<"| Job | Result |", "| ------------- | ------------ |">>

(* reporting.py 127-130: the two header lines and one row per check name.  *)
comment_table_rows(check_names, url, state) ==
    <<"| Job | Result |", "| ------------- | ------------ |">>
        \o [k \in 1..Len(check_names) |->
                "| [" \o check_names[k] \o "](" \o url \o ") | "
                    \o Upper(state) \o " |"]

(* reporting.py 197-201: comment(): on the pull request when pr_id is      *)
(* set, on the commit otherwise.                                           *)
comment(a, body) ==
    IF ~IsNone(pr_id)
    THEN <<Entry("get_pr", "project", a, "comment", 0),
           Entry("pr_comment", "pr", a, body, 0)>>
    ELSE <<Entry("commit_comment", "project", a, body, 0)>>

(* reporting.py 113-133: report_status_by_comment() is called and runs to  *)
(* its end; iterating over check_names = None is a TypeError.              *)
ReportStatusByComment ==
    /\ r_pc = "idle"
    /\ r_ncalls < MaxReporterCalls
    /\ r_ncalls' = r_ncalls + 1
    /\ \E sa \in StatusArgs, description \in Descriptions,
          check_names \in CheckNamesArgs :
          LET a == [state |-> sa.state, description |-> description,
                    check_name |-> "", url |-> sa.url]
              called == [Entry("report_status_by_comment", "", a,
                               check_names.tag, 0)
                             EXCEPT !.names = check_names.list,
                                    !.check_name = check_names.str]
              table == JoinLines(comment_table_rows(
                           NormalizeNames(check_names), sa.url, sa.state))
              body == table \o "\n### Description\n\n" \o description
          IN IF check_names.tag = "None"
             THEN rlog' = <<called, Entry("raise", "", a, "TypeError", 0)>>
             ELSE rlog' = <<called>> \o comment(a, body)
                              \o <<Entry("return", "", a, "", 0)>>
    /\ UNCHANGED <<project_kind, commit_sha, pr_id, project_with_commit,
                   head_commit, r_pc, r_args, r_pending, r_in_report, r_pr,
                   r_ncommits>>
    /\ UNCHANGED <<dispatch_vars, parser_vars>>

(* The forge: a commit lands on the pull request.                          *)
NewCommit ==
    /\ r_pc # "off"
    /\ ~IsNone(pr_id)
    /\ r_ncommits < MaxCommits
    /\ r_ncommits' = r_ncommits + 1
    /\ head_commit' \in Commits \ {head_commit}
    /\ UNCHANGED <<project_kind, commit_sha, pr_id, project_with_commit,
                   r_pc, r_args, r_pending, r_in_report, r_pr, r_ncalls,
                   rlog>>
    /\ UNCHANGED <<dispatch_vars, parser_vars>>

NextReporter ==
    \/ CallReport
    \/ ReportNext
    \/ CallSetStatus
    \/ RetrySetStatus
    \/ SetCommitStatus
    \/ SetPullRequestStatus
    \/ SetFlag
    \/ ReportStatusByComment
    \/ NewCommit

SpecReporter == InitReporter /\ [][NextReporter]_vars

(***************************************************************************)
(* Vocabulary of the properties.                                           *)
(***************************************************************************)
IsGate(c) == c.op = "check_and_report"
IsGroup(c) == c.op = "group.apply_async"
IsSubmission(c) == c.op \in {"group.apply_async", "apply_async"}

(* Positions in calls of the gate calls, of the rejections, of the groups. *)
GateIdx == {i \in 1..Len(calls) : IsGate(calls[i])}
RejectIdx == {i \in GateIdx : ~calls[i].ok}
GroupIdx == {i \in 1..Len(calls) : IsGroup(calls[i])}
SubmissionIdx == {i \in 1..Len(calls) : IsSubmission(calls[i])}

(* process_jobs was entered, has returned.                                 *)
InJobsLoop == pc \in {"loop", "gate", "submit"}
JobsReturned == ~IsNone(jobs_return)

(* The event process_jobs works on, its configuration, what match() gives. *)
TheEvent == Get(event_object)
HasConfig == ~IsNone(TheEvent.package_config)
Matched == get_handlers_for_event(TheEvent, Get(TheEvent.package_config))

(* The project of event e is private and its namespace is not enabled.     *)
PrivateNotEnabled(e) ==
    /\ ~IsNone(e.project)
    /\ Get(e.project).private
    /\ \A ns \in enabled_private_namespaces :
           ns # Get(e.project).hostname \o "/" \o Get(e.project).namespace

(***************************************************************************)
(* C1: in one process_jobs call, once the allowlist rejects for a handler  *)
(* class, no group is submitted for that class or for any class still to   *)
(* be iterated, the allowlist is not called again, and process_jobs has    *)
(* returned in the very step of the rejection.                             *)
(***************************************************************************)
C1_AbortOnRejection ==
    \A i \in RejectIdx :
        /\ i = Len(calls)
        /\ JobsReturned /\ ~InJobsLoop
        /\ \A j \in GroupIdx :
               /\ calls[j].handler # calls[i].handler
               /\ calls[j].handler \notin handler_classes

(* A rejection for the first of two matched handler classes, call over.    *)
C1_Witness ==
    /\ pc = "done"
    /\ RejectIdx = {1}
    /\ handler_classes # {}

(***************************************************************************)
(* C2: process_message on a payload whose event has a private project      *)
(* whose hostname/namespace is not among enabled_private_namespaces never  *)
(* reaches the scheduling of any event kind: no call to the allowlist or   *)
(* to celery is made, and the call returns the empty list.                 *)
(***************************************************************************)
C2_PrivateDropped ==
    (entry = "process_message" /\ ~IsNone(raw) /\ PrivateNotEnabled(Get(raw)))
        => /\ calls = <<>>
           /\ pc \in {"topic", "parse", "private", "done"}
           /\ pc = "done" => result = Some(<<>>)

(* An installation event of a private, not enabled namespace that passed   *)
(* the topic filter and its pre_check, dropped.                            *)
C2_Witness ==
    /\ entry = "process_message"
    /\ pc = "done"
    /\ ~IsNone(event_object)
    /\ TheEvent.kind = "InstallationEvent"
    /\ TheEvent.pre_check
    /\ PrivateNotEnabled(TheEvent)

(***************************************************************************)
(* C3: process_jobs on an event without package configuration returns      *)
(* exactly one TaskResults, success and without job config, never enters   *)
(* the loop, and calls neither the allowlist nor celery.                   *)
(***************************************************************************)
C3_NoConfig ==
    (JobsReturned /\ ~HasConfig)
        => /\ Len(Get(jobs_return)) = 1
           /\ Get(jobs_return)[1].success
           /\ Get(jobs_return)[1].job_config = None
           /\ calls = <<>>

(* process_jobs has returned for an event without configuration.           *)
C3_Witness ==
    /\ entry = "process_jobs"
    /\ pc = "done"
    /\ ~HasConfig
    /\ Len(Get(result)) = 1

(***************************************************************************)
(* C4: process_jobs on an event with a package configuration for which     *)
(* get_handlers_for_event gives the empty set returns the empty list, and  *)
(* calls neither the allowlist nor celery.                                 *)
(***************************************************************************)
C4_NothingMatched ==
    (JobsReturned /\ HasConfig /\ Matched = {})
        => /\ Get(jobs_return) = <<>>
           /\ calls = <<>>

(* process_jobs has returned for a configuration with jobs, of which none  *)
(* gives a handler for the event.                                          *)
C4_Witness ==
    /\ entry = "process_jobs"
    /\ pc = "done"
    /\ HasConfig
    /\ Get(TheEvent.package_config).jobs # <<>>
    /\ Matched = {}
    /\ result = Some(<<>>)

(***************************************************************************)
(* C5: as stated, process_jobs on an event whose trigger matches no job    *)
(* of its package configuration returns exactly one TaskResults, success   *)
(* and without job config.                                                 *)
(***************************************************************************)
NoJobMatchesTrigger ==
    /\ HasConfig
    /\ \A i \in 1..Len(Get(TheEvent.package_config).jobs) :
           Get(TheEvent.package_config).jobs[i].trigger # TheEvent.trigger

(* C5 as stated: no job with the event's trigger gives exactly one success *)
(* TaskResults without job config.                                         *)
C5_Original ==
    (JobsReturned /\ NoJobMatchesTrigger)
        => /\ Len(Get(jobs_return)) = 1
           /\ Get(jobs_return)[1].success
           /\ Get(jobs_return)[1].job_config = None

(* C5, amended: process_jobs on an event whose trigger matches no job of   *)
(* its package configuration returns the empty list, without any call to   *)
(* the allowlist or to celery.                                             *)
C5_Amended ==
    (JobsReturned /\ NoJobMatchesTrigger)
        => /\ jobs_return = Some(<<>>)
           /\ calls = <<>>

(* process_jobs has returned for a configuration whose jobs all have       *)
(* another trigger than the event.                                         *)
C5_Witness ==
    /\ JobsReturned
    /\ NoJobMatchesTrigger
    /\ Len(Get(TheEvent.package_config).jobs) = MaxJobs
    /\ TheEvent.kind \in SUPPORTED_EVENTS_FOR_HANDLER("CoprBuildHandler")

(***************************************************************************)
(* C6: as stated, when process_jobs gave process_message the empty list,   *)
(* process_message returns the single default success ("Job created.",     *)
(* no job config).                                                         *)
(***************************************************************************)
EmptyFromJobs ==
    /\ entry = "process_message"
    /\ pc = "done"
    /\ jobs_return = Some(<<>>)

(* C6 as stated: an empty list from process_jobs is replaced by the single *)
(* default success.                                                        *)
C6_Original ==
    EmptyFromJobs
        => result = Some(<<TaskResults(TRUE, "Job created.", None, TheEvent)>>)

(* C6, amended: when process_jobs gave process_message the empty list,     *)
(* process_message returns that empty list; the default success is built   *)
(* only when process_jobs was not called.                                  *)
C6_Amended ==
    /\ EmptyFromJobs => result = Some(<<>>)
    /\ (entry = "process_message" /\ pc = "done" /\ JobsReturned)
           => result = jobs_return

(* process_message is over, process_jobs was called and returned [].       *)
C6_Witness ==
    /\ EmptyFromJobs
    /\ ~IsNone(result)
    /\ TheEvent.kind \notin {"InstallationEvent", "PullRequestLabelPagureEvent"}

(***************************************************************************)
(* C7: the allowlist call for a handler class comes right before the       *)
(* submission of its group; and when process_jobs has returned from a call *)
(* in which the allowlist accepted every time, exactly one group was       *)
(* submitted per matched handler class, holding one signature per job      *)
(* config of get_config_for_handler_kls for that class, built from the     *)
(* class, the event and the job config, and nothing else was submitted.    *)
(***************************************************************************)
(* The list of the signatures expected for handler class h.                *)
ExpectedSignatures(h) ==
    LET cfgs == get_config_for_handler_kls(
                    h, TheEvent, Get(TheEvent.package_config))
    IN [k \in 1..Len(cfgs) |->
           [handler |-> h, event |-> TheEvent, job |-> Some(cfgs[k])]]

AllAccepted == JobsReturned /\ HasConfig /\ Matched # {} /\ RejectIdx = {}

(* C7: one group per matched handler class, right after its allowlist      *)
(* call, with one signature per job config of the class.                   *)
C7_GroupPerHandler ==
    /\ \A i \in GroupIdx :
           /\ i > 1
           /\ IsGate(calls[i - 1])
           /\ calls[i - 1].ok
           /\ calls[i - 1].handler = calls[i].handler
    /\ AllAccepted
           => /\ \A h \in Matched :
                    /\ Cardinality({i \in GroupIdx : calls[i].handler = h}) = 1
                    /\ \A i \in GroupIdx :
                           calls[i].handler = h
                               => calls[i].signatures = ExpectedSignatures(h)
              /\ SubmissionIdx = GroupIdx
              /\ \A i \in GroupIdx : calls[i].handler \in Matched
              /\ Cardinality(GroupIdx) = Cardinality(Matched)

(* Two handler classes matched, both accepted, both groups submitted.      *)
C7_Witness ==
    /\ pc = "done"
    /\ AllAccepted
    /\ Cardinality(Matched) = 2
    /\ Cardinality(GroupIdx) = 2

(***************************************************************************)
(* C8: when process_jobs returns after its loop, without rejection, the    *)
(* returned list is one success TaskResults per job config of the handler  *)
(* class iterated last, in the order of get_config_for_handler_kls; a job  *)
(* config that only an earlier handler class has is in a submitted group   *)
(* and in no returned TaskResults.                                         *)
(***************************************************************************)
LastHandler == calls[Len(calls)].handler

(* C8: the returned list holds one success TaskResults per job config of   *)
(* the handler class iterated last, and of no other class.                 *)
C8_LastHandlerResults ==
    AllAccepted
        => LET cfgs == get_config_for_handler_kls(
                           LastHandler, TheEvent, Get(TheEvent.package_config))
               returned == Get(jobs_return)
           IN /\ Len(returned) = Len(cfgs)
              /\ \A k \in 1..Len(cfgs) :
                     /\ returned[k].success
                     /\ returned[k].msg = "Job created."
                     /\ returned[k].job_config = Some(cfgs[k])
              /\ \A i \in GroupIdx : \A k \in 1..Len(calls[i].job_configs) :
                     ~InSeq(calls[i].job_configs[k], cfgs)
                         => /\ calls[i].signatures[k].job
                                   = Some(calls[i].job_configs[k])
                            /\ \A r \in 1..Len(returned) :
                                   returned[r].job_config
                                       # Some(calls[i].job_configs[k])

(* Two groups were submitted, and the first holds a job config that the    *)
(* handler class iterated last does not have.                              *)
C8_Witness ==
    /\ pc = "done"
    /\ AllAccepted
    /\ Cardinality(GroupIdx) = 2
    /\ \E i \in GroupIdx : \E k \in 1..Len(calls[i].job_configs) :
           ~InSeq(calls[i].job_configs[k], calls[Len(calls)].job_configs)

(***************************************************************************)
(* C9: process_message on an installation event or a label event that      *)
(* passed the topic filter, the parsing, its pre_check and the private     *)
(* repository check never enters process_jobs and never calls the          *)
(* allowlist; it submits exactly one signature, without job config, for    *)
(* the handler of that event, with or without package configuration, and   *)
(* returns a single success TaskResults without job config.                *)
(***************************************************************************)
TopicRejected ==
    /\ ~IsNone(topic)
    /\ \A h \in HandlerKinds : HandlerTopic(h) # topic

(* The payload gets through the topic filter, the parsing, the pre_check   *)
(* and the private repository check.                                       *)
PassesChecks ==
    /\ entry = "process_message"
    /\ ~TopicRejected
    /\ ~IsNone(raw)
    /\ Get(raw).pre_check
    /\ ~PrivateNotEnabled(Get(raw))

DirectHandler(kind) ==
    IF kind = "InstallationEvent" THEN "GithubAppInstallationHandler"
    ELSE "PagurePullRequestLabelHandler"

(* C9: installation and label events are submitted directly, as one        *)
(* signature without job config, never through process_jobs.               *)
C9_DirectScheduling ==
    (PassesChecks
        /\ Get(raw).kind \in {"InstallationEvent", "PullRequestLabelPagureEvent"})
        => /\ pc \notin {"process_jobs", "loop", "gate", "submit"}
           /\ IsNone(jobs_return)
           /\ GateIdx = {}
           /\ pc \in {"finish", "done"}
                  => calls =
                        <<[op |-> "apply_async",
                           handler |-> DirectHandler(Get(raw).kind),
                           job_configs |-> <<>>,
                           signatures |->
                               <<[handler |-> DirectHandler(Get(raw).kind),
                                  event |-> Get(raw), job |-> None]>>,
                           ok |-> TRUE]>>
           /\ pc = "done"
                  => /\ Len(Get(result)) = 1
                     /\ Get(result)[1].success
                     /\ Get(result)[1].job_config = None

(* A label event whose package configuration declares a job with the       *)
(* event's trigger, scheduled directly.                                    *)
C9_Witness ==
    /\ pc = "done"
    /\ PassesChecks
    /\ Get(raw).kind = "PullRequestLabelPagureEvent"
    /\ ~IsNone(Get(raw).package_config)
    /\ \E i \in 1..Len(Get(Get(raw).package_config).jobs) :
           Get(Get(raw).package_config).jobs[i].trigger = Get(raw).trigger
    /\ Len(calls) = 1

(***************************************************************************)
(* C10: process_message returns the empty list, having called neither the  *)
(* allowlist nor celery, when (a) a topic is given that is no handler's    *)
(* topic, and then no parser is run, (b) the payload parses to no event,   *)
(* (c) the event's pre_check is false.                                     *)
(***************************************************************************)
C10_EarlyExits ==
    (entry = "process_message"
        /\ (TopicRejected \/ IsNone(raw) \/ ~Get(raw).pre_check))
        => /\ calls = <<>>
           /\ pc \in {"topic", "parse", "done"}
           /\ TopicRejected => ~parsed /\ IsNone(event_object)
           /\ pc = "done" => result = Some(<<>>)

(* A payload with a foreign topic whose event would pass its pre_check,    *)
(* call over.                                                              *)
C10_Witness ==
    /\ pc = "done" /\ entry = "process_message" /\ TopicRejected
    /\ ~IsNone(raw) /\ Get(raw).pre_check

(***************************************************************************)
(* C11: for an event that is no comment event, get_handlers_for_event is   *)
(* exactly the set of the handler classes h such that a job of the package *)
(* configuration has the trigger of the event, h is mapped to or required  *)
(* by the type of that job, and the class of the event is among the events *)
(* h supports; it is empty when no handler class supports the class of the *)
(* event.  The set is read off the run: the classes still to iterate, the  *)
(* class being iterated and the classes the allowlist was asked about.     *)
(***************************************************************************)
JobsEntered == InJobsLoop \/ (JobsReturned /\ HasConfig)

ObservedHandlers ==
    handler_classes
        \cup {calls[i].handler : i \in GateIdx}
        \cup (IF pc = "gate" THEN {Get(handler_kls)} ELSE {})

TheJobs == Get(TheEvent.package_config).jobs

(* C11: the handler classes matched for a non-comment event are exactly    *)
(* those mapped to or required by a job with the event's trigger that      *)
(* support the class of the event.                                         *)
C11_MatchNonComment ==
    (JobsEntered /\ TheEvent.kind \notin CommentEventKinds)
        => /\ ObservedHandlers =
                 {h \in HandlerKinds :
                     \E i \in 1..Len(TheJobs) :
                         /\ TheJobs[i].trigger = TheEvent.trigger
                         /\ \/ h \in MAP_JOB_TYPE_TO_HANDLER(TheJobs[i].type)
                            \/ h \in MAP_REQUIRED_JOB_TYPE_TO_HANDLER(
                                         TheJobs[i].type)
                         /\ TheEvent.kind \in SUPPORTED_EVENTS_FOR_HANDLER(h)}
           /\ (\A h \in HandlerKinds :
                   TheEvent.kind \notin SUPPORTED_EVENTS_FOR_HANDLER(h))
                  => ObservedHandlers = {} /\ jobs_return = Some(<<>>)

(* A pull request event whose only job is a tests job: the build handler   *)
(* is matched because the tests require it.                                *)
C11_Witness ==
    /\ pc = "done"
    /\ JobsEntered
    /\ TheEvent.kind = "PullRequestGithubEvent"
    /\ Len(TheJobs) = 1
    /\ TheJobs[1].type = "tests"
    /\ ObservedHandlers = {"CoprBuildHandler"}

(***************************************************************************)
(* C12: the job configs given to the allowlist for a handler class are,    *)
(* among the jobs with the trigger of the event, those whose type maps to  *)
(* the class when there is one, and only otherwise those whose type        *)
(* requires the class.                                                     *)
(***************************************************************************)
(* Positions of the jobs with the event's trigger mapped to h, requiring h.*)
DirectIdx(h) ==
    {i \in 1..Len(TheJobs) :
        /\ TheJobs[i].trigger = TheEvent.trigger
        /\ h \in MAP_JOB_TYPE_TO_HANDLER(TheJobs[i].type)}

RequiredIdx(h) ==
    {i \in 1..Len(TheJobs) :
        /\ TheJobs[i].trigger = TheEvent.trigger
        /\ h \in MAP_REQUIRED_JOB_TYPE_TO_HANDLER(TheJobs[i].type)}

ChosenIdx(h) == IF DirectIdx(h) # {} THEN DirectIdx(h) ELSE RequiredIdx(h)

(* C12: the job configs of a handler class are the trigger-matching jobs   *)
(* mapped to it when there are any, otherwise those requiring it.          *)
C12_DirectThenRequired ==
    \A c \in GateIdx :
        LET h == calls[c].handler
            cfgs == calls[c].job_configs
        IN /\ Len(cfgs) = Cardinality(ChosenIdx(h))
           /\ \A k \in 1..Len(cfgs) : \E i \in ChosenIdx(h) : cfgs[k] = TheJobs[i]
           /\ \A i \in ChosenIdx(h) : InSeq(TheJobs[i], cfgs)

(* The allowlist was asked about a handler class that no job maps to and   *)
(* one job requires, with that one job.                                    *)
C12_Witness ==
    \E c \in GateIdx :
        /\ DirectIdx(calls[c].handler) = {}
        /\ Cardinality(RequiredIdx(calls[c].handler)) = 1
        /\ Len(calls[c].job_configs) = 1
        /\ Len(TheJobs) = MaxJobs

(***************************************************************************)
(* C13: the job configs of a handler class are a subsequence of the jobs   *)
(* of the package configuration, and the signatures of the group and the   *)
(* returned TaskResults are in the order of these job configs.             *)
(***************************************************************************)
RECURSIVE IsSubsequence(_, _)
IsSubsequence(a, b) ==
    IF a = <<>> THEN TRUE
    ELSE IF b = <<>> THEN FALSE
    ELSE IF Head(a) = Head(b) THEN IsSubsequence(Tail(a), Tail(b))
    ELSE IsSubsequence(a, Tail(b))

(* C13: job configs, signatures and results keep the order of the jobs of  *)
(* the package configuration.                                              *)
C13_ConfigOrder ==
    /\ \A c \in GateIdx : IsSubsequence(calls[c].job_configs, TheJobs)
    /\ \A g \in GroupIdx :
           /\ Len(calls[g].signatures) = Len(calls[g].job_configs)
           /\ calls[g].job_configs = calls[g - 1].job_configs
           /\ \A k \in 1..Len(calls[g].signatures) :
                  calls[g].signatures[k].job = Some(calls[g].job_configs[k])
    /\ (JobsReturned /\ GateIdx # {})
           => LET last == CHOOSE c \in GateIdx : \A d \in GateIdx : d <= c
                  returned == Get(jobs_return)
              IN /\ Len(returned) = Len(calls[last].job_configs)
                 /\ \A k \in 1..Len(returned) :
                        returned[k].job_config
                            = Some(calls[last].job_configs[k])

(* Two different jobs of one handler class, submitted and returned.        *)
C13_Witness ==
    /\ pc = "done"
    /\ JobsReturned
    /\ \E g \in GroupIdx :
           /\ Len(calls[g].signatures) = 2
           /\ calls[g].signatures[1] # calls[g].signatures[2]
    /\ Len(Get(jobs_return)) = 2

(***************************************************************************)
(* C14: as stated, a job that the package configuration holds twice is     *)
(* given once to a handler class: the job configs the allowlist is asked   *)
(* about, and the signatures of a group, hold no job twice.                *)
(***************************************************************************)
C14_NoDuplicateConfigs ==
    /\ \A c \in GateIdx :
           \A k, l \in 1..Len(calls[c].job_configs) :
               k # l => calls[c].job_configs[k] # calls[c].job_configs[l]
    /\ \A g \in GroupIdx :
           \A k, l \in 1..Len(calls[g].signatures) :
               k # l => calls[g].signatures[k] # calls[g].signatures[l]

(***************************************************************************)
(* Vocabulary of the reporter's properties: rlog is the log of the         *)
(* caller's latest call; a set_status in it runs from its "set_status"     *)
(* line to its "return" or "raise" line.                                   *)
(***************************************************************************)
StatusIdx == {i \in DOMAIN rlog : rlog[i].op = "set_status"}
AttemptIdx == {i \in DOMAIN rlog : rlog[i].op = "set_commit_status"}
EndsAfter(i) ==
    {j \in (i + 1)..Len(rlog) : rlog[j].op \in {"return", "raise"}}
(* The line that ends the set_status running at line i; 0 while it runs.   *)
EndOf(i) ==
    IF EndsAfter(i) = {} THEN 0
    ELSE CHOOSE j \in EndsAfter(i) : \A k \in EndsAfter(i) : j <= k
(* The lines of the set_status that line i belongs to, from line i on.     *)
RestOf(i) == IF EndOf(i) = 0 THEN i..Len(rlog) ELSE i..EndOf(i)
CommentsIn(i) == {k \in RestOf(i) : rlog[k].op = "commit_comment"}
Raised(i) == \E k \in RestOf(i) : rlog[k].op = "raise"
Returned(i) == \E k \in RestOf(i) : rlog[k].op = "return"
MirrorAttempted(i) ==
    \E k \in RestOf(i) : rlog[k].op = "get_pr" /\ rlog[k].detail = "pr"
FlagsIn(i) == {k \in RestOf(i) : rlog[k].op = "set_flag"}
(* The fallback comment of the attempt at line i: on the commit reported,  *)
(* with name, state, url and description of the status.                    *)
IsFallback(k, i) ==
    /\ rlog[k].op = "commit_comment"
    /\ rlog[k].target = "project"
    /\ rlog[k].detail =
           "- name: " \o rlog[i].check_name \o "\n- state: " \o rlog[i].state
               \o "\n- url: "
               \o (IF rlog[i].url = "" THEN "not provided" ELSE rlog[i].url)
               \o "\n\n" \o rlog[i].description
GitlabFailed(i, codes) ==
    /\ i \in AttemptIdx
    /\ rlog[i].detail = "GitlabCreateError"
    /\ rlog[i].code \in codes

(* C15: when set_commit_status fails with GitlabCreateError, set_status    *)
(* posts no fallback comment and does not raise on code 400, posts the     *)
(* fallback commit comment and does not raise on 403 and 404, and raises   *)
(* to the caller on any other code.                                        *)
C15_CreateError ==
    \A i \in AttemptIdx :
        /\ GitlabFailed(i, {400}) => CommentsIn(i) = {} /\ ~Raised(i)
        /\ GitlabFailed(i, {403, 404}) =>
               /\ CommentsIn(i) = {i + 1}
               /\ IsFallback(i + 1, i)
               /\ ~Raised(i)
        /\ GitlabFailed(i, 0..999 \ {400, 403, 404}) =>
               /\ Raised(i)
               /\ EndOf(i) = Len(rlog) => r_pc = "idle"
               /\ ~Returned(i)

(* A report of two check names: the first attempt was answered 403, the    *)
(* comment posted and set_status returned; the second was answered 500 and *)
(* raised.                                                                 *)
C15_Witness ==
    \E i, j \in AttemptIdx :
        /\ GitlabFailed(i, {403}) /\ CommentsIn(i) = {i + 1} /\ Returned(i)
        /\ GitlabFailed(j, {500}) /\ Raised(j)

(* The reads of the pull request by the mirror step of the set_status at   *)
(* line i.                                                                 *)
MirrorReads(i) ==
    {k \in RestOf(i) : rlog[k].op = "get_pr" /\ rlog[k].detail = "pr"}
(* Line k sets the flag of the status whose attempt was logged at line a.  *)
IsFlagOf(k, a) ==
    /\ k \in DOMAIN rlog
    /\ rlog[k].op = "set_flag"
    /\ rlog[k].target = "pr"
    /\ rlog[k].check_name = rlog[a].check_name
    /\ rlog[k].state = rlog[a].state
    /\ rlog[k].url = rlog[a].url
    /\ rlog[k].description = rlog[a].description
    /\ rlog[k].detail = "md5:" \o rlog[a].check_name
(* The attempt of the set_status at line i.                                *)
AttemptOf(i) == CHOOSE a \in RestOf(i) : rlog[a].op = "set_commit_status"
(* The mirror step of the set_status at line i was carried out: the pull   *)
(* request was read, and flagged when it has flags and the head commit     *)
(* read is the commit reported.                                            *)
Mirrored(i) ==
    /\ MirrorReads(i) # {}
    /\ \A k \in MirrorReads(i) :
           HasSetFlag(project_kind) /\ rlog[k].head = commit_sha
               => IsFlagOf(k + 1, AttemptOf(i))

(* C16 as stated: in every set_status that is over, however its attempt    *)
(* ended, the mirror step was carried out when a pull request id is set.   *)
C16_Original ==
    \A i \in StatusIdx :
        EndOf(i) # 0 /\ ~IsNone(pr_id) => Mirrored(i)

(* C16, amended: every set_status that returns has carried out the mirror  *)
(* step when a pull request id is set (after a success, a 400, a fallback  *)
(* comment alike); a set_status that re-raises has not read the pull       *)
(* request for the mirror step and has set no flag.                        *)
C16_Amended ==
    \A i \in StatusIdx :
        /\ Returned(i) /\ ~IsNone(pr_id) => Mirrored(i)
        /\ Raised(i) => MirrorReads(i) = {} /\ FlagsIn(i) = {}

(* A set_status on a pull request with flags whose head is the commit      *)
(* reported has returned, the flag set.                                    *)
C16_Witness ==
    \E i \in StatusIdx :
        /\ Returned(i)
        /\ \E k \in MirrorReads(i) : IsFlagOf(k + 1, AttemptOf(i))

(* C17: a flag is set only with a pull request id given, on a pull request *)
(* that has flags, and whose head commit at the moment the flag is set is  *)
(* the commit of the reporter, whatever commits land between the calls and *)
(* during them.                                                            *)
C17_NoStaleFlag ==
    \A k \in DOMAIN rlog :
        rlog[k].op = "set_flag" =>
            /\ ~IsNone(pr_id)
            /\ HasSetFlag(project_kind)
            /\ rlog[k].head = commit_sha

GithubFailed(i) ==
    /\ i \in AttemptIdx
    /\ rlog[i].detail = "GithubException"

(* C18: when set_commit_status fails with GithubException, whatever its    *)
(* code, set_status posts the fallback commit comment exactly once, does   *)
(* not raise, and goes on to the mirror step.                              *)
C18_GithubException ==
    \A i \in AttemptIdx :
        GithubFailed(i) =>
            /\ CommentsIn(i) = {i + 1}
            /\ IsFallback(i + 1, i)
            /\ ~Raised(i)
            /\ IF EndOf(i) = 0
               THEN r_pc = "mirror"
               ELSE Returned(i) /\ (~IsNone(pr_id) => MirrorReads(i) # {})

(* A report of two check names on a pull request: both attempts failed     *)
(* with GithubException, one with 403 and one with 500, and both           *)
(* set_status returned after the comment and the read of the pull request. *)
C18_Witness ==
    \E i, j \in AttemptIdx :
        /\ GithubFailed(i) /\ rlog[i].code = 403
        /\ GithubFailed(j) /\ rlog[j].code = 500
        /\ Returned(i) /\ MirrorReads(i) # {}
        /\ Returned(j) /\ MirrorReads(j) # {}

(* The caller's latest call is a report(); what it was given.              *)
ReportCalled == rlog # <<>> /\ rlog[1].op = "report"
NoNames ==
    \/ rlog[1].detail = "None"
    \/ rlog[1].detail = "str" /\ rlog[1].check_name = ""
    \/ rlog[1].detail = "list" /\ rlog[1].names = <<>>
GivenNames ==
    IF rlog[1].detail = "str" THEN <<rlog[1].check_name>> ELSE rlog[1].names
ForgeOps == {"get_pr", "set_commit_status", "commit_comment", "set_flag"}
(* The check names set_status was invoked with, in order.                  *)
StatusNames ==
    LET IsStatus(e) == e.op = "set_status"
        invoked == SelectSeq(rlog, IsStatus)
    IN [k \in 1..Len(invoked) |-> invoked[k].check_name]
SameArgs ==
    \A i \in StatusIdx :
        /\ rlog[i].state = rlog[1].state
        /\ rlog[i].description = rlog[1].description
        /\ rlog[i].url = rlog[1].url
IsPrefix(a, b) == Len(a) <= Len(b) /\ a = SubSeq(b, 1, Len(a))
ReportOver == rlog[Len(rlog)].op \in {"report_return", "raise"}

(* C19 as stated: a report() without check names makes no forge call; any  *)
(* other report() that is over has invoked set_status once per check name, *)
(* in order, with its own state, description and url.                      *)
C19_Original ==
    ReportCalled /\ ReportOver =>
        IF NoNames
        THEN \A k \in DOMAIN rlog : rlog[k].op \notin ForgeOps \cup {"set_status"}
        ELSE StatusNames = GivenNames /\ SameArgs

(* C19, amended: a report() without check names makes no forge call and    *)
(* returns; any other report() invokes set_status for the check names in   *)
(* the given order with its own state, description and url, for each name  *)
(* once when it returns, and for the names up to the one whose set_status  *)
(* re-raised when it ends with that exception.                             *)
C19_Amended ==
    ReportCalled =>
        IF NoNames
        THEN /\ Len(rlog) = 2
             /\ rlog[2].op = "report_return"
        ELSE /\ IsPrefix(StatusNames, GivenNames)
             /\ SameArgs
             /\ rlog[Len(rlog)].op = "report_return" => StatusNames = GivenNames
             /\ rlog[Len(rlog)].op = "raise" =>
                    /\ StatusNames # <<>>
                    /\ rlog[Len(rlog)].check_name
                           = GivenNames[Len(StatusNames)]
             /\ r_pc = "idle" => ReportOver

(* A report() of two check names has returned after a set_status for each, *)
(* the first of which fell back to the comment.                            *)
C19_Witness ==
    /\ ReportCalled
    /\ rlog[Len(rlog)].op = "report_return"
    /\ Len(GivenNames) = 2
    /\ StatusNames = GivenNames
    /\ \E i \in StatusIdx : CommentsIn(i) # {}

(***************************************************************************)
(* C20: get_packit_commands_from_comment returns the empty list when the   *)
(* comment holds no marker or nothing but whitespace follows the marker;   *)
(* when the marker is followed by whitespace and a token it returns one to *)
(* three arguments, in the order of the comment, the first two free of     *)
(* whitespace and the third the whole rest of the comment; and it gives    *)
(* ["build"] for "/packit build", [] for "random text" and "/packitbuild", *)
(* ["a", "b", "c d"] for "/packit a b c d".                                *)
(***************************************************************************)
MarkerAt(c, i) ==
    /\ i + Len(REQUESTED_PULL_REQUEST_COMMENT) - 1 <= Len(c)
    /\ \A k \in 1..Len(REQUESTED_PULL_REQUEST_COMMENT) :
           c[i + k - 1] = REQUESTED_PULL_REQUEST_COMMENT[k]

HasMarker(c) == \E i \in 1..Len(c) : MarkerAt(c, i)

(* The text after the first marker of c.                                   *)
AfterMarker(c) ==
    LET m == CHOOSE i \in 1..Len(c) :
                 MarkerAt(c, i) /\ \A j \in 1..(i - 1) : ~MarkerAt(c, j)
    IN SubSeq(c, m + Len(REQUESTED_PULL_REQUEST_COMMENT), Len(c))

AllWhite(t, from, to) == \A k \in from..to : t[k] \in WhiteSpace
NoWhite(t) == \A k \in 1..Len(t) : t[k] \notin WhiteSpace

(* r is t cut into its tokens: each r[k] stands in t at p[k], whitespace   *)
(* and nothing else lies before, between and after them, and a third token *)
(* runs to the end of t.                                                   *)
TokensOf(r, t) ==
    \E p \in [1..Len(r) -> 1..Len(t)] :
        /\ \A k \in 1..Len(r) :
               /\ r[k] # <<>>
               /\ r[k][1] \notin WhiteSpace
               /\ p[k] + Len(r[k]) - 1 <= Len(t)
               /\ SubSeq(t, p[k], p[k] + Len(r[k]) - 1) = r[k]
               /\ k < 3 => NoWhite(r[k])
               /\ LET prev == IF k = 1 THEN 1 ELSE p[k - 1] + Len(r[k - 1])
                  IN /\ prev < p[k]
                     /\ AllWhite(t, prev, p[k] - 1)
        /\ LET last == Len(r)
           IN IF last = 3 THEN p[last] + Len(r[last]) - 1 = Len(t)
              ELSE AllWhite(t, p[last] + Len(r[last]), Len(t))

(* C20: the comment parser gives [] without a marker or with only          *)
(* whitespace after it, otherwise one to three arguments in order, the     *)
(* third being the rest of the comment; and the four examples hold.        *)
C20_ParseCommand ==
    ~IsNone(commands_out)
        => LET r == Get(commands_out)
               c == comment_in
           IN /\ Len(r) <= 3
              /\ ~HasMarker(c) => r = <<>>
              /\ (HasMarker(c) /\ AllWhite(AfterMarker(c), 1,
                                           Len(AfterMarker(c))))
                     => r = <<>>
              /\ (/\ HasMarker(c)
                  /\ AfterMarker(c) # <<>>
                  /\ AfterMarker(c)[1] \in WhiteSpace
                  /\ ~AllWhite(AfterMarker(c), 1, Len(AfterMarker(c))))
                     => /\ Len(r) >= 1
                        /\ TokensOf(r, AfterMarker(c))
              /\ r # <<>> => HasMarker(c) /\ TokensOf(r, AfterMarker(c))
              /\ c = example_build => r = <<cmd_build>>
              /\ c = example_random_text => r = <<>>
              /\ c = example_packitbuild => r = <<>>
              /\ c = example_a_b_c_d
                     => r = <<(<<"a">>), (<<"b">>), (<<"c", " ", "d">>)>>

(* "/packit a b c d" was parsed into three arguments.                      *)
C20_Witness ==
    /\ comment_in = example_a_b_c_d
    /\ ~IsNone(commands_out)
    /\ Len(Get(commands_out)) = 3

(* The caller's latest call is a report_status_by_comment(); the comments  *)
(* it posted.                                                              *)
ByCommentCalled == rlog # <<>> /\ rlog[1].op = "report_status_by_comment"
PostedIdx == {k \in DOMAIN rlog : rlog[k].op \in {"pr_comment", "commit_comment"}}
RECURSIVE ExpectedTable(_, _, _)
ExpectedTable(names, url, shown) ==
    IF names = <<>> THEN "| Job | Result |\n| ------------- | ------------ |"
    ELSE ExpectedTable(SubSeq(names, 1, Len(names) - 1), url, shown)
             \o "\n| [" \o names[Len(names)] \o "](" \o url \o ") | "
             \o shown \o " |"

CommandsOfEvent == get_packit_commands_from_comment(TheEvent.comment)
BoundToCommand ==
    IF CommandsOfEvent = <<>> THEN {}
    ELSE MAP_COMMENT_TO_HANDLER(CommandsOfEvent[1])
SomeJobMatchesTrigger ==
    \E i \in 1..Len(TheJobs) : TheJobs[i].trigger = TheEvent.trigger

(* C23: for a comment event the matched handler classes are among those    *)
(* bound to the command of the comment; a comment without marker, without  *)
(* argument or with a command bound to no handler class matches nothing,   *)
(* whatever the jobs, and process_jobs then asks the allowlist nothing,    *)
(* submits nothing and returns the empty list.                             *)
C23_CommentMatch ==
    (JobsEntered /\ TheEvent.kind \in CommentEventKinds)
        => /\ ObservedHandlers \subseteq BoundToCommand
           /\ \A i \in GateIdx \cup GroupIdx :
                  calls[i].handler \in BoundToCommand
           /\ (\/ TheEvent.comment \in {comment_no_marker, comment_marker_only,
                                        comment_unknown}
               \/ BoundToCommand = {})
                  => /\ ObservedHandlers = {}
                     /\ GateIdx = {}
                     /\ SubmissionIdx = {}
                     /\ jobs_return = Some(<<>>)

(* A comment with a command bound to no handler class, on a configuration  *)
(* with a job of the event's trigger: process_jobs returned the empty list.*)
C23_Witness ==
    /\ JobsReturned /\ HasConfig
    /\ TheEvent.kind \in CommentEventKinds
    /\ TheEvent.comment = comment_unknown
    /\ SomeJobMatchesTrigger
    /\ jobs_return = Some(<<>>)

(* The attempts that ended with a create error of a code that is re-raised,*)
(* the fallback comments posted.                                           *)
FatalIdx == {i \in AttemptIdx : GitlabFailed(i, 0..999 \ {400, 403, 404})}
FallbackIdx == {k \in DOMAIN rlog : rlog[k].op = "commit_comment"}

(* C24: a create error with a code outside {400, 403, 404} has the         *)
(* fallback comment posted exactly once and then re-raised; each retry of  *)
(* the call that fails the same way posts the comment once more.           *)
C24_CommentBeforeRaise ==
    /\ \A i \in FatalIdx :
           /\ CommentsIn(i) = {i + 1}
           /\ IsFallback(i + 1, i)
           /\ EndOf(i) = i + 2
           /\ rlog[i + 2].op = "raise"
    /\ (rlog # <<>> /\ rlog[1].op = "set_status"
           /\ \A i \in AttemptIdx : i \in FatalIdx)
          => Cardinality(FallbackIdx) = Cardinality(FatalIdx)

(* A set_status that raised was retried and raised again: the same comment *)
(* stands twice on the commit.                                             *)
C24_Witness ==
    /\ Cardinality(FatalIdx) = 2
    /\ \E k, l \in FallbackIdx : k < l /\ rlog[k].detail = rlog[l].detail
    /\ rlog[Len(rlog)].op = "raise"
    /\ \E i \in StatusIdx : rlog[i].detail = "retry"

(* The allowlist calls before call i of calls.                             *)
GatesBefore(i) == {g \in GateIdx : g < i}

(* C25: when the allowlist rejects for a handler class that is not the     *)
(* first one iterated, every class iterated before was accepted and its    *)
(* group is submitted and still is when process_jobs has returned; the     *)
(* returned list is one failed TaskResults per job config of the rejected  *)
(* class, and holds no success.                                            *)
C25_LateRejection ==
    \A i \in RejectIdx :
        GatesBefore(i) # {} =>
            /\ \A g \in GatesBefore(i) :
                   /\ calls[g].ok
                   /\ IsGroup(calls[g + 1])
                   /\ calls[g + 1].handler = calls[g].handler
                   /\ calls[g + 1].signatures
                          = ExpectedSignatures(calls[g].handler)
                   /\ calls[g + 1].signatures # <<>>
            /\ Cardinality(GroupIdx) = Cardinality(GatesBefore(i))
            /\ JobsReturned
            /\ LET returned == Get(jobs_return)
                   cfgs == calls[i].job_configs
               IN /\ Len(returned) = Len(cfgs)
                  /\ \A k \in 1..Len(returned) :
                         /\ ~returned[k].success
                         /\ returned[k].job_config = Some(cfgs[k])
                         /\ returned[k].event = TheEvent
                  /\ \A g \in GatesBefore(i) :
                         calls[g].handler # calls[i].handler

(* The second of two handler classes was rejected, the group of the first  *)
(* one submitted, and the failed TaskResults of the second returned.       *)
C25_Witness ==
    /\ pc = "done"
    /\ RejectIdx = {3}
    /\ IsGroup(calls[2])
    /\ calls[2].signatures # <<>>
    /\ Len(Get(jobs_return)) = 1
    /\ ~Get(jobs_return)[1].success

(* C26: every matched handler class has at least one job config (looked at *)
(* when process_jobs enters its loop); so the allowlist is never asked     *)
(* about an empty list of job configs, no empty group is submitted, and a  *)
(* rejection returns at least one failed TaskResults.                      *)
C26_ConfigsNonEmpty ==
    /\ (pc = "loop" /\ calls = <<>>) =>
           \A h \in Matched :
               get_config_for_handler_kls(
                   h, TheEvent, Get(TheEvent.package_config)) # <<>>
    /\ \A i \in GateIdx : calls[i].job_configs # <<>>
    /\ \A g \in GroupIdx : calls[g].signatures # <<>>
    /\ \A i \in RejectIdx :
           /\ JobsReturned
           /\ Len(Get(jobs_return)) >= 1
           /\ \A k \in 1..Len(Get(jobs_return)) : ~Get(jobs_return)[k].success

(* The build handler, matched only because a tests job requires it, was    *)
(* rejected with the tests job as its job config.                          *)
C26_Witness ==
    /\ pc = "done"
    /\ JobsEntered
    /\ Len(TheJobs) = 1
    /\ TheJobs[1].type = "tests"
    /\ RejectIdx = {1}
    /\ calls[1].handler = "CoprBuildHandler"
    /\ calls[1].job_configs = TheJobs
    /\ Len(Get(jobs_return)) = 1

(* The groups submitted, as handler class and signatures, without their    *)
(* order; and the groups the event and its configuration determine.        *)
SubmittedGroups ==
    {[handler |-> calls[g].handler, signatures |-> calls[g].signatures] :
        g \in GroupIdx}
GroupsOfEvent ==
    {[handler |-> h, signatures |-> ExpectedSignatures(h)] : h \in Matched}

(* C27: when the allowlist accepts every handler class, the collection of  *)
(* groups process_jobs has submitted is determined by the event and its    *)
(* package configuration alone, each group once: it is the same in         *)
(* whatever order the set of matched handler classes is iterated.          *)
C27_OrderIndependent ==
    AllAccepted
        => /\ SubmittedGroups = GroupsOfEvent
           /\ \A g, k \in GroupIdx :
                  calls[g].handler = calls[k].handler => g = k

(* Both orders of two matched classes end with the same two groups; here   *)
(* the koji build class was iterated first and the results returned are    *)
(* those of the copr build class.                                          *)
C27_Witness ==
    /\ pc = "done"
    /\ AllAccepted
    /\ Cardinality(SubmittedGroups) = 2
    /\ calls[2].handler = "KojiBuildHandler"
    /\ calls[4].handler = "CoprBuildHandler"
    /\ Get(jobs_return)[1].job_config = Some(calls[4].job_configs[1])

(* The marker stands in c at i as a token of its own: the start of c or    *)
(* whitespace before it, whitespace or the end of c after it.              *)
StandaloneAt(c, i) ==
    /\ MarkerAt(c, i)
    /\ i = 1 \/ c[i - 1] \in WhiteSpace
    /\ LET after == i + Len(REQUESTED_PULL_REQUEST_COMMENT)
       IN after > Len(c) \/ c[after] \in WhiteSpace

(* C21: the parser gives a command only for a comment in which the marker  *)
(* stands as a whitespace-delimited token of its own; "/packitbuild x" and *)
(* "x/packit build" give no command.                                       *)
C21_StandaloneMarker ==
    ~IsNone(commands_out)
        => /\ Get(commands_out) # <<>>
                  => \E i \in 1..Len(comment_in) : StandaloneAt(comment_in, i)
           /\ comment_in = example_packitbuild_x => Get(commands_out) = <<>>
           /\ comment_in = example_x_packit_build => Get(commands_out) = <<>>

=============================================================================
